---- MODULE Spec2Model ----
(***************************************************************************)
(* QuorumBridge: the event -> consensus -> execution pipeline of the       *)
(* relayer backend (event poller, attestation signer, consensus validator, *)
(* executor) over the single-table state store.                            *)
(*                                                                         *)
(* Twelve specifications share one set of variables:                      *)
(*   SpecPoll      the chain watchers of every relayer polling, ingesting  *)
(*                 and signing (eventPoller/index.js, ethPoller.js,        *)
(*                 bscPoller);                                             *)
(*   SpecCursor    the same watchers choosing their block ranges with      *)
(*                 getPollingRange while the chains grow, RPC calls fail   *)
(*                 and Lambda containers are replaced;                     *)
(*   SpecFault     the watchers and the validator when logs or stream      *)
(*                 records are malformed and a relayer's key is unusable;  *)
(*   SpecSign      the signer loop alone over a table holding the events;  *)
(*   Spec          the signer loop, the validator and the executor over a  *)
(*                 store holding an ingested event;                        *)
(*   SpecDispatch  the same processes over a store holding a lock event or *)
(*                 a burn event;                                           *)
(*   SpecLate      the signers and the validator while the executor        *)
(*                 invocations stay queued and time passes;                *)
(*   SpecReplay    the signers and the validator when the validator        *)
(*                 crashes or its invocation of the executor fails;        *)
(*   SpecHash      createEventHash applied by two relayers to two readings *)
(*                 of Event rows;                                          *)
(*   SpecValidate  the pure consensus check and action lookup applied to   *)
(*                 arbitrary lists of signature rows.                      *)
(*   SpecVote      the same check applied to lists holding rows of unknown *)
(*                 relayers, rows whose signature does not verify and rows *)
(*                 of two relayer ids with one address;                    *)
(*   SpecBridge    the bridge contracts called with new and repeated       *)
(*                 eventIds (BSCBridge, EthereumBridge, WrappedToken).     *)
(* Time is counted in minutes.                                             *)
(***************************************************************************)
EXTENDS Integers, Sequences, FiniteSets, TLC

(* ------------------------------ bounds --------------------------------- *)
\* on-chain bridge events; odd ids are TokensLocked logs, even ids TokensBurned
NumEvents == 3
\* the event ingested when the validator and executor are observed is one of
\* the first NumIngested (Spec, SpecLate)
NumIngested == 1
\* poll runs started over all watchers (SpecPoll, SpecCursor)
MaxPolls == 2
\* head of a chain that is not newly created when the first watcher runs
FirstHead == 100
\* blocks a chain grows by between two looks at it: some, or more than
\* maxBlocksPerPoll
LongStep == 60
HugeStep == 600
\* times a chain grows (SpecCursor)
MaxAdvances == 2
\* malformed records in the signature stream (SpecFault)
MaxBadRecords == 1
\* poll runs started over all watchers (SpecFault)
MaxFaultPolls == 1
\* validator crashes and failed executor invocations (SpecReplay)
MaxDispatchFaults == 2
\* signer batches started over all relayers (Spec)
MaxBatches == 2
\* signer batches started over all relayers (SpecSign)
MaxSignBatches == 2
\* clock ticks (SpecSign, SpecLate)
MaxTicks == 1
\* minutes per clock tick
TickMinutes == 40
\* concurrent validator invocations
NumValidators == 1
\* concurrent executor invocations
NumExecutors == 2
\* signer batches started over all relayers (SpecLate)
MaxLateBatches == 3
\* length of the signature lists handed to the consensus check (SpecValidate)
MaxSigs == 3
\* eventIds the bridge contracts are called with (SpecBridge)
NumBridgeEvents == 2
\* token holders other than the bridge (SpecBridge)
NumAccounts == 1
\* largest amount a bridge call asks for (SpecBridge)
MaxAmount == 2
\* tokens the BSC bridge holds locked when the calls begin (SpecBridge)
BridgeFunds == 3
\* calls made to the bridge contracts (SpecBridge)
MaxCalls == 3

(* ------------------------- program constants --------------------------- *)
RequiredSignatures == 2
TotalRelayers == 3
MaxAgeMinutes == 30
MaxRetries == 3
Confirmations == 3
\* getPollingRange: blocks looked back without a cursor, blocks per poll,
\* blocks a range stays behind the head
DefaultLookback == 50
MaxBlocksPerPoll == 500
ConfirmationDepth == 3

EventIds == 1..NumEvents
RelayerIds == 1..TotalRelayers
Chains == {"bsc", "ethereum"}
Validators == 1..NumValidators
Executors == 1..NumExecutors

NoRow == [absent |-> TRUE]
Empty == <<>>
NoRelayer == 0
NoTimestamp == -1
NoCount == -1

VARIABLES
  events,           \* store: EVENT#e / METADATA
  signatures,       \* store: EVENT#e / SIGNATURE#r
  executions,       \* store: EVENT#e / EXECUTION
  now,              \* wall clock, minutes
  eventCreates,     \* per event: createEvent calls that returned the item
  sigCreates,       \* per (event, relayer): createSignature calls that returned the item
  sigRejected,      \* per (event, relayer): a createSignature call was rejected
  polls,            \* poll runs / signer batches started
  watcher,          \* per (relayer, chain): one pollAndSignEvents run
  seen,             \* per (relayer, chain): events its finished queries returned
  streamRecords,    \* per event: undelivered signature INSERT stream records
  validator,        \* per validator invocation: position in validateAndTriggerExecution
  invocations,      \* per event: queued asynchronous executor invocations (payloads)
  invoked,          \* per event: executor invocations sent by the validator
  executor,         \* per executor invocation: position in the handler
  processedOnChain, \* per event: the bridge contract's processed flag
  minedTx,          \* per event: the receipt of the transaction that set the flag
  submitted,        \* per event: transactions sent to the chain
  everFailed,       \* per event: an Execution row with status FAILED was written
  quorumWith,       \* per event: signature rows read when validateFullConsensus
                    \* first returned isValid (0: it has not yet)
  vSigs,            \* SpecValidate: the signature list under test
  vStatus,          \* SpecValidate: the status of the event under test
  vResult,          \* SpecValidate: the result of the consensus check on it
  vAction,          \* SpecValidate: the action determined from that result
  head,             \* per chain: the current block number
  cursor,           \* per (relayer, chain): the poller's lastProcessedBlock
  lastRange,        \* per (relayer, chain): the last getPollingRange call
  advances,         \* times a chain has grown
  relayerKey,       \* per relayer: state of RELAYER_<id>_PRIVATE_KEY
  badLogs,          \* events whose log parseEventLog cannot parse
  badRecords,       \* malformed stream records: still in the stream, handled
  dispatchFaults,   \* validator crashes and failed invocations still to come
  hashIn,           \* SpecHash: two (relayer, Event row as read) pairs
  hashOut,          \* SpecHash: the digests the two relayers computed
  token,            \* BSC token: balanceOf, per address
  processedUnlocks, \* BSCBridge: per eventId
  wrapped,          \* WrappedToken: balanceOf, per address
  processedEvents,  \* WrappedToken: per eventId
  processedMints,   \* EthereumBridge: per eventId
  tokensUnlocked,   \* per eventId: TokensUnlocked events emitted
  tokensMinted,     \* per eventId: TokensMinted events emitted
  calls,            \* transactions sent to the bridge contracts
  lastTx,           \* the last of them and how it ended
  sentTx            \* the transactions the executors have sent, as sent

vars == <<events, signatures, executions, now, eventCreates, sigCreates,
          sigRejected, polls, watcher, seen, streamRecords, validator,
          invocations, invoked, executor, processedOnChain, minedTx, submitted,
          everFailed, quorumWith, vSigs, vStatus, vResult,
          vAction,
          head, cursor, lastRange, advances, relayerKey, badLogs,
          badRecords, dispatchFaults, hashIn, hashOut,
          token, processedUnlocks, wrapped, processedEvents, processedMints,
          tokensUnlocked, tokensMinted, calls, lastTx, sentTx>>

(* ---------------------- consensus.js: pure checks ---------------------- *)
\* sig && sig.signature && sig.relayerId && sig.publicKey
IsStructurallyValid(sig) ==
  /\ sig.signature # Empty
  /\ sig.relayerId # NoRelayer
  /\ sig.publicKey # Empty

\* mutant: the filter forgets the signature bytes
ValidateConsensus_NoSigCheck(sigs) ==
  LET valid == SelectSeq(sigs, LAMBDA s : s.relayerId # NoRelayer /\ s.publicKey # Empty)
  IN [hasConsensus |-> Len(valid) >= RequiredSignatures,
      validSignatures |-> Len(valid),
      requiredSignatures |-> RequiredSignatures,
      signatures |-> valid]

\* mutant: the threshold is off by one
ValidateConsensus_OffByOne(sigs) ==
  LET valid == SelectSeq(sigs, IsStructurallyValid)
  IN [hasConsensus |-> Len(valid) >= RequiredSignatures - 1,
      validSignatures |-> Len(valid),
      requiredSignatures |-> RequiredSignatures,
      signatures |-> valid]

ValidateConsensus(sigs) ==
  LET valid == SelectSeq(sigs, IsStructurallyValid)
  IN [hasConsensus |-> Len(valid) >= RequiredSignatures,
      validSignatures |-> Len(valid),
      requiredSignatures |-> RequiredSignatures,
      signatures |-> valid]

\* TRUE when validateUniqueRelayers returns, FALSE when it throws
ValidateUniqueRelayers(sigs) ==
  Cardinality({sigs[i].relayerId : i \in 1..Len(sigs)}) = Len(sigs)

\* mutant: the loop over the signatures ends after the first one
ValidateSignatureTiming_FirstOnly(sigs, t) ==
  \A i \in 1..Len(sigs) :
     \/ i > 1
     \/ sigs[i].timestamp = NoTimestamp
     \/ ~(t - sigs[i].timestamp > MaxAgeMinutes)

\* TRUE when validateSignatureTiming returns, FALSE when it throws
ValidateSignatureTiming(sigs, t) ==
  \A i \in 1..Len(sigs) :
     \/ sigs[i].timestamp = NoTimestamp
     \/ ~(t - sigs[i].timestamp > MaxAgeMinutes)

ValidateFullConsensus(sigs, t) ==
  LET c == ValidateConsensus(sigs)
  IN IF ~c.hasConsensus
       THEN [isValid |-> FALSE, reason |-> "INSUFFICIENT_SIGNATURES",
             validSignatures |-> c.validSignatures,
             requiredSignatures |-> c.requiredSignatures]
     ELSE IF ~ValidateUniqueRelayers(c.signatures)
       THEN [isValid |-> FALSE, reason |-> "CONSENSUS_ERROR",
             validSignatures |-> NoCount, requiredSignatures |-> NoCount]
     ELSE IF ~ValidateSignatureTiming(c.signatures, t)
       THEN [isValid |-> FALSE, reason |-> "CONSENSUS_ERROR",
             validSignatures |-> NoCount, requiredSignatures |-> NoCount]
     ELSE [isValid |-> TRUE, reason |-> "",
           validSignatures |-> c.validSignatures,
           requiredSignatures |-> c.requiredSignatures]

\* mutant: the action is looked up without testing consensusResult.isValid
DetermineAction_IgnoreValidity(result, eventStatus) ==
  IF eventStatus = "PENDING_MINT"
    THEN [action |-> "MINT", targetChain |-> "ethereum", method |-> "mintWrapped",
          reason |-> ""]
  ELSE IF eventStatus = "PENDING_UNLOCK"
    THEN [action |-> "UNLOCK", targetChain |-> "arbitrum", method |-> "unlockTokens",
          reason |-> ""]
  ELSE [action |-> "ERROR", targetChain |-> "", method |-> "",
        reason |-> "Unknown status"]

DetermineAction(result, eventStatus) ==
  IF ~result.isValid
    THEN [action |-> "WAIT", targetChain |-> "", method |-> "",
          reason |-> IF result.reason # "" THEN result.reason ELSE "Consensus not reached"]
  ELSE IF eventStatus = "PENDING_MINT"
    THEN [action |-> "MINT", targetChain |-> "ethereum", method |-> "mintWrapped",
          reason |-> ""]
  ELSE IF eventStatus = "PENDING_UNLOCK"
    THEN [action |-> "UNLOCK", targetChain |-> "arbitrum", method |-> "unlockTokens",
          reason |-> ""]
  ELSE [action |-> "ERROR", targetChain |-> "", method |-> "",
        reason |-> "Unknown status"]

(* ------------------------- the two source chains ----------------------- *)
\* TokensLocked logs are emitted on the lock side, TokensBurned on the other
ChainOf(e) == IF e % 2 = 1 THEN "bsc" ELSE "ethereum"

EventsOfChain(c) == {e \in EventIds : ChainOf(e) = c}

\* decimal rendering of an on-chain uint256 (amount.toString())
AmountToString(n) == <<"dec", n>>

\* the args of the log the bridge contract emitted for event e
LogOf(e) ==
  [eventId |-> e, transactionHash |-> <<"tx", e>>, amount |-> 10 * e,
   from |-> <<"user", e>>, blockNumber |-> FirstHead + e]

\* ascending sequence of a set of event ids (logs come ordered by block)
RECURSIVE AscSeq(_)
AscSeq(S) ==
  IF S = {} THEN <<>>
  ELSE LET m == CHOOSE x \in S : \A y \in S : x <= y
       IN <<m>> \o AscSeq(S \ {m})

\* processEvent: the eventData extracted from a parsed log
EventDataOf(e, c) ==
  LET log == LogOf(e)
  IN [eventId |-> log.eventId,
      txHash |-> log.transactionHash,
      chain |-> IF c = "bsc" THEN "BSC" ELSE "ETHEREUM",
      amount |-> AmountToString(log.amount),
      fromAddress |-> log.from,
      toAddress |-> log.from,
      status |-> IF c = "bsc" THEN "PENDING_MINT" ELSE "PENDING_UNLOCK"]

(* --------------------------- dynamoService.js -------------------------- *)
\* mutant: the put carries no condition
CreateEventCondition_Unconditional(store, eventId) == TRUE

\* ConditionExpression: attribute_not_exists(PK) on key (EVENT#e, METADATA)
CreateEventCondition(store, eventId) == store[eventId] = NoRow

\* mutant: the put carries no condition
CreateSignatureCondition_Unconditional(store, eventId, relayerId) == TRUE

\* ConditionExpression: attribute_not_exists(PK) AND attribute_not_exists(SK)
\* on key (EVENT#e, SIGNATURE#r)
CreateSignatureCondition(store, eventId, relayerId) ==
  store[eventId][relayerId] = NoRow

\* the item createSignature puts
SignatureItem(eventId, relayerId, signature, publicKey, t) ==
  [eventId |-> eventId, relayerId |-> relayerId, signature |-> signature,
   publicKey |-> publicKey, timestamp |-> t]

\* the item upsertExecution puts (retryCount = 0, error = null by default)
ExecutionItem(eventId, status, txHash, retryCount, error) ==
  [eventId |-> eventId, status |-> status, txHash |-> txHash,
   retryCount |-> retryCount, error |-> error]

\* isEventProcessed
IsEventProcessed(store, eventId) == store[eventId] # NoRow

\* buildEventDataFromItems: the signature rows of one partition, in sort-key order
SignatureRows(eventId) ==
  LET rs == {r \in RelayerIds : signatures[eventId][r] # NoRow}
      ord == AscSeq(rs)
  IN [i \in 1..Len(ord) |-> signatures[eventId][ord[i]]]

(* --------------------------- signingService.js ------------------------- *)
\* wallet.address of relayer r
AddressOf(r) == <<"addr", r>>

\* mutant: the status of the row is encoded with the other fields
CreateEventHash_WithStatus(eventData) ==
  <<"keccak", eventData.eventId, eventData.txHash, eventData.chain,
    eventData.amount, eventData.fromAddress, eventData.toAddress,
    eventData.status>>

\* createEventHash: the digest of the immutable fields, in this order
CreateEventHash(eventData) ==
  <<"keccak", eventData.eventId, eventData.txHash, eventData.chain,
    eventData.amount, eventData.fromAddress, eventData.toAddress>>

\* signEventData
SignEventData(relayerId, eventData) ==
  [signature |-> <<"sig", relayerId, CreateEventHash(eventData)>>,
   relayerId |-> relayerId,
   publicKey |-> AddressOf(relayerId)]

\* ethers.verifyMessage: the address of the key that signed, when the
\* signature is over this digest; some other address otherwise
RecoverAddress(messageHash, signature) ==
  IF signature # Empty /\ signature[3] = messageHash
    THEN AddressOf(signature[2])
    ELSE <<"addr", -1>>

\* verifySignature(eventData, signature, expectedAddress)
VerifySignature(eventData, signature, expectedAddress) ==
  RecoverAddress(CreateEventHash(eventData), signature) = expectedAddress

(* ------------------------------ watchers ------------------------------- *)
Watchers == RelayerIds \X Chains

IdleWatcher ==
  [pc |-> "idle", queue |-> <<>>, events |-> <<>>, pos |-> 1, outcome |-> "NONE"]

\* the sign loop is over, pollAndSignEvents returns
RunDone(rec) == [IdleWatcher EXCEPT !.outcome = rec.outcome]

\* mutant: an error in the sign loop ends the run
AfterSignError_Abort(rec) == RunDone(rec)

\* eventPoller/index.js: the catch inside the sign loop logs and goes on
AfterSignError(rec) ==
  IF rec.pos + 1 > Len(rec.events)
    THEN RunDone([rec EXCEPT !.pos = rec.pos + 1])
    ELSE [rec EXCEPT !.pos = rec.pos + 1]

AfterSignSuccess(rec) ==
  IF rec.pos + 1 > Len(rec.events)
    THEN RunDone([rec EXCEPT !.pos = rec.pos + 1])
    ELSE [rec EXCEPT !.pos = rec.pos + 1]

\* poll(): the for loop over the queried logs has ended
AfterProcess(rec) ==
  IF rec.queue # <<>> THEN [rec EXCEPT !.pc = "check"]
  ELSE IF rec.events # <<>> THEN [rec EXCEPT !.pc = "sign", !.pos = 1]
  ELSE RunDone(rec)

PipelineUnchanged ==
  UNCHANGED <<executions, validator, invocations, invoked, executor,
              processedOnChain, minedTx, submitted, sentTx, everFailed, quorumWith>>

ValidateUnchanged == UNCHANGED <<vSigs, vStatus, vResult, vAction>>

CursorUnchanged == UNCHANGED <<head, cursor, lastRange, advances>>

FaultUnchanged ==
  UNCHANGED <<relayerKey, badLogs, badRecords, dispatchFaults>>

HashUnchanged == UNCHANGED <<hashIn, hashOut>>
BridgeUnchanged ==
  UNCHANGED <<token, processedUnlocks, wrapped, processedEvents,
              processedMints, tokensUnlocked, tokensMinted, calls, lastTx>>

\* constructor: this.lastProcessedBlock = null
NoCursor == [known |-> FALSE, block |-> 0]

\* lastRange before a watcher's first getPollingRange call: n counts the
\* calls, rpc tells how the run's RPC calls ended, origin is the fromBlock
\* of the first range the watcher was given
NoCall ==
  [n |-> 0, rpc |-> "none", isNull |-> TRUE, fromBlock |-> 0, toBlock |-> 0,
   hasOrigin |-> FALSE, origin |-> 0]

\* block of the log of event e: the events are emitted after FirstHead
BlockOf(e) == LogOf(e).blockNumber

\* JavaScript truthiness of this.lastProcessedBlock: null and 0 are falsy
Truthy(lastProcessedBlock) ==
  lastProcessedBlock.known /\ lastProcessedBlock.block # 0

Min(a, b) == IF a <= b THEN a ELSE b

\* getPollingRange(maxBlocksPerPoll = 500) up to its return value
GetPollingRange(lastProcessedBlock, currentBlock) ==
  LET fromBlock == IF Truthy(lastProcessedBlock)
                     THEN lastProcessedBlock.block + 1
                     ELSE currentBlock - DefaultLookback
      safeBlock == currentBlock - ConfirmationDepth
      toBlock == Min(fromBlock + MaxBlocksPerPoll, safeBlock)
  IN [isNull |-> fromBlock > toBlock, fromBlock |-> fromBlock,
      toBlock |-> toBlock]

\* pollAndSignEvents up to the end of queryEvents: getCurrentBlock,
\* getPollingRange (which moves lastProcessedBlock), then the log query.
\* Either RPC call may fail; a failure ends the run.
RangeStart(r, c) ==
  LET w == <<r, c>>
      range == GetPollingRange(cursor[w], head[c])
      old == lastRange[w]
  IN /\ watcher[w].pc = "idle"
     /\ polls < MaxPolls
     /\ polls' = polls + 1
     /\ \E rpc \in {"ok", "head_failed", "query_failed"} :
          /\ rpc = "query_failed" => ~range.isNull
          /\ IF rpc = "head_failed"
               THEN /\ lastRange' = [lastRange EXCEPT ![w] =
                         [old EXCEPT !.n = old.n + 1, !.rpc = rpc,
                                     !.isNull = TRUE, !.fromBlock = 0,
                                     !.toBlock = 0]]
                    /\ UNCHANGED <<cursor, watcher, seen>>
               ELSE /\ lastRange' = [lastRange EXCEPT ![w] =
                         [n |-> old.n + 1, rpc |-> rpc,
                          isNull |-> range.isNull,
                          fromBlock |-> range.fromBlock,
                          toBlock |-> range.toBlock,
                          hasOrigin |-> old.hasOrigin \/ ~range.isNull,
                          origin |-> IF old.hasOrigin \/ range.isNull
                                       THEN old.origin ELSE range.fromBlock]]
                    /\ cursor' = [cursor EXCEPT ![w] =
                         IF range.isNull THEN @
                         ELSE [known |-> TRUE, block |-> range.toBlock]]
                    /\ IF range.isNull \/ rpc = "query_failed"
                         THEN UNCHANGED <<watcher, seen>>
                         ELSE LET found == AscSeq({e \in EventsOfChain(c) :
                                       /\ range.fromBlock <= BlockOf(e)
                                       /\ BlockOf(e) <= range.toBlock})
                              IN /\ watcher' = [watcher EXCEPT ![w] =
                                      AfterProcess([IdleWatcher EXCEPT !.queue = found])]
                                 /\ seen' = [seen EXCEPT ![w] =
                                      @ \cup {found[i] : i \in 1..Len(found)}]
     /\ UNCHANGED <<events, signatures, now, eventCreates, sigCreates,
                    sigRejected, streamRecords, head, advances>>
     /\ PipelineUnchanged /\ ValidateUnchanged /\ FaultUnchanged /\ HashUnchanged /\ BridgeUnchanged

\* the chain c grows
Advance(c) ==
  /\ advances < MaxAdvances
  /\ advances' = advances + 1
  /\ \E d \in {LongStep, HugeStep} : head' = [head EXCEPT ![c] = @ + d]
  /\ UNCHANGED <<events, signatures, now, eventCreates, sigCreates,
                 sigRejected, polls, watcher, seen, streamRecords, cursor,
                 lastRange>>
  /\ PipelineUnchanged /\ ValidateUnchanged /\ FaultUnchanged /\ HashUnchanged /\ BridgeUnchanged

\* the Lambda container of relayer r is replaced: the poller modules are
\* loaded again and both cursors start as null
Restart(r) ==
  /\ \A c \in Chains : watcher[<<r, c>>].pc = "idle"
  /\ \E c \in Chains : cursor[<<r, c>>].known
  /\ cursor' = [w \in Watchers |-> IF w[1] = r THEN NoCursor ELSE cursor[w]]
  /\ UNCHANGED <<events, signatures, now, eventCreates, sigCreates,
                 sigRejected, polls, watcher, seen, streamRecords, head,
                 lastRange, advances>>
  /\ PipelineUnchanged /\ ValidateUnchanged /\ FaultUnchanged /\ HashUnchanged /\ BridgeUnchanged

\* getPollingRange + queryEvents: the logs of chain c in the blocks
\* FirstHead + lo .. FirstHead + hi
PollBatch(r, c, limit) ==
  /\ watcher[<<r, c>>].pc = "idle"
  /\ polls < limit
  /\ \E lo \in EventIds : \E hi \in lo..NumEvents :
       LET found == AscSeq({e \in EventsOfChain(c) :
                     /\ FirstHead + lo <= BlockOf(e)
                     /\ BlockOf(e) <= FirstHead + hi})
       IN /\ watcher' = [watcher EXCEPT ![<<r, c>>] =
               AfterProcess([IdleWatcher EXCEPT !.queue = found])]
          /\ seen' = [seen EXCEPT ![<<r, c>>] =
               @ \cup {found[i] : i \in 1..Len(found)}]
  /\ polls' = polls + 1
  /\ UNCHANGED <<events, signatures, now, eventCreates, sigCreates,
                 sigRejected, streamRecords>>
  /\ PipelineUnchanged /\ ValidateUnchanged /\ CursorUnchanged /\ FaultUnchanged /\ HashUnchanged /\ BridgeUnchanged

\* mutant: an error of processEvent ends the poll and the run
AfterProcessError_Abort(rec) == RunDone([rec EXCEPT !.outcome = "THROWN"])

\* poll(): the catch inside the for loop logs and goes on with the next log
AfterProcessError(rec) ==
  AfterProcess([rec EXCEPT !.queue = Tail(rec.queue), !.outcome = "THROWN"])

\* mutant: whatever the environment holds is taken as a key
KeyUsable_Any(envKey) == TRUE

\* getRelayerPrivateKey: the variable is set and is 64 hex digits
KeyUsable(envKey) == envKey # "missing" /\ envKey # "malformed"

PollStart(r, c) == PollBatch(r, c, MaxPolls)

\* processEvent, first half: parseEventLog and the existence check
ProcessCheck(r, c) ==
  LET w == <<r, c>>
      rec == watcher[w]
      e == Head(rec.queue)
  IN /\ rec.pc = "check"
     /\ IF e \in badLogs
          THEN watcher' = [watcher EXCEPT ![w] = AfterProcessError(rec)]
          ELSE IF IsEventProcessed(events, e)
          THEN watcher' = [watcher EXCEPT ![w] =
                 AfterProcess([rec EXCEPT !.queue = Tail(rec.queue),
                                          !.outcome = "NULL"])]
          ELSE watcher' = [watcher EXCEPT ![w].pc = "create"]
     /\ UNCHANGED <<events, signatures, now, eventCreates, sigCreates,
                    sigRejected, polls, seen, streamRecords>>
     /\ PipelineUnchanged /\ ValidateUnchanged /\ CursorUnchanged /\ FaultUnchanged /\ HashUnchanged /\ BridgeUnchanged

\* processEvent, second half: createEvent and the return or the throw
ProcessCreate(r, c) ==
  LET w == <<r, c>>
      rec == watcher[w]
      e == Head(rec.queue)
      data == EventDataOf(e, c)
  IN /\ rec.pc = "create"
     /\ IF CreateEventCondition(events, e)
          THEN /\ events' = [events EXCEPT ![e] = data]
               /\ eventCreates' = [eventCreates EXCEPT ![e] = @ + 1]
               /\ watcher' = [watcher EXCEPT ![w] =
                    AfterProcess([rec EXCEPT !.queue = Tail(rec.queue),
                                             !.events = Append(rec.events, e),
                                             !.outcome = "CREATED"])]
          ELSE /\ watcher' = [watcher EXCEPT ![w] = AfterProcessError(rec)]
               /\ UNCHANGED <<events, eventCreates>>
     /\ UNCHANGED <<signatures, now, sigCreates, sigRejected, polls, seen,
                    streamRecords>>
     /\ PipelineUnchanged /\ ValidateUnchanged /\ CursorUnchanged /\ FaultUnchanged /\ HashUnchanged /\ BridgeUnchanged

\* one turn of the sign loop: signEventData, createSignature
SignStep(r, c) ==
  LET w == <<r, c>>
      rec == watcher[w]
      e == rec.events[rec.pos]
      sd == SignEventData(r, events[e])
  IN /\ rec.pc = "sign"
     /\ IF ~KeyUsable(relayerKey[r])
          THEN /\ watcher' = [watcher EXCEPT ![w] = AfterSignError(rec)]
               /\ UNCHANGED <<signatures, sigCreates, sigRejected,
                              streamRecords>>
          ELSE IF CreateSignatureCondition(signatures, e, r)
          THEN /\ signatures' = [signatures EXCEPT ![e][r] =
                    SignatureItem(e, r, sd.signature, sd.publicKey, now)]
               /\ sigCreates' = [sigCreates EXCEPT ![e][r] = @ + 1]
               /\ streamRecords' = [streamRecords EXCEPT ![e] = @ + 1]
               /\ watcher' = [watcher EXCEPT ![w] = AfterSignSuccess(rec)]
               /\ UNCHANGED sigRejected
          ELSE /\ watcher' = [watcher EXCEPT ![w] = AfterSignError(rec)]
               /\ sigRejected' = [sigRejected EXCEPT ![e][r] = TRUE]
               /\ UNCHANGED <<signatures, sigCreates, streamRecords>>
     /\ UNCHANGED <<events, now, eventCreates, polls, seen>>
     /\ PipelineUnchanged /\ ValidateUnchanged /\ CursorUnchanged /\ FaultUnchanged /\ HashUnchanged /\ BridgeUnchanged

\* the signer handed a batch of stored events of its chain
BatchStart(r, c, limit) ==
  /\ watcher[<<r, c>>].pc = "idle"
  /\ polls < limit
  /\ \E S \in SUBSET {e \in EventsOfChain(c) : events[e] # NoRow} :
       /\ S # {}
       /\ watcher' = [watcher EXCEPT ![<<r, c>>] =
            [IdleWatcher EXCEPT !.pc = "sign", !.events = AscSeq(S)]]
  /\ polls' = polls + 1
  /\ UNCHANGED <<events, signatures, now, eventCreates, sigCreates,
                 sigRejected, seen, streamRecords>>
  /\ PipelineUnchanged /\ ValidateUnchanged /\ CursorUnchanged /\ FaultUnchanged /\ HashUnchanged /\ BridgeUnchanged

(* ----------------------- validator/index.js ---------------------------- *)
IdleValidator ==
  [pc |-> "idle", eventId |-> 0, action |-> "NONE", eventData |-> NoRow]

IdleExecutor ==
  [pc |-> "idle", eventId |-> 0, action |-> "NONE", eventData |-> NoRow,
   attempt |-> 0,
   txHash |-> Empty, lastError |-> Empty, delays |-> <<>>]

WatcherUnchanged ==
  UNCHANGED <<eventCreates, sigCreates, sigRejected, polls, watcher, seen,
              signatures>>

\* mutant: an error on one record ends the handler, the records after it
\* are not looked at
AfterRecordError_Drop(records) == [e \in EventIds |-> 0]

\* handler: the catch inside the loop over event.Records pushes a failure
\* result and goes on with the records that follow
AfterRecordError(records) == records

\* handler: a stream record that cannot be read (no NewImage) throws inside
\* the loop
ValBadRecord(v) ==
  /\ validator[v].pc = "idle"
  /\ badRecords.pending > 0
  /\ badRecords' = [pending |-> badRecords.pending - 1,
                    handled |-> badRecords.handled + 1]
  /\ streamRecords' = AfterRecordError(streamRecords)
  /\ UNCHANGED <<events, executions, now, validator, invocations, invoked,
                 executor, processedOnChain, minedTx, submitted, sentTx, everFailed,
                 quorumWith, relayerKey, badLogs, dispatchFaults>>
  /\ WatcherUnchanged /\ ValidateUnchanged /\ CursorUnchanged /\ HashUnchanged /\ BridgeUnchanged

\* validateAndTriggerExecution up to the decision: getEventData, the
\* already-executed check, validateFullConsensus, determineAction
ValRead(v) ==
  /\ validator[v].pc = "idle"
  /\ \E e \in EventIds :
       /\ streamRecords[e] > 0
       /\ streamRecords' = [streamRecords EXCEPT ![e] = @ - 1]
       /\ LET event == events[e]
              execution == executions[e]
              cr == ValidateFullConsensus(SignatureRows(e), now)
              act == DetermineAction(cr, event.status)
          IN /\ validator' = [validator EXCEPT ![v] =
               \* 'Event not found'
               IF event = NoRow THEN IdleValidator
               \* 'Already executed'
               ELSE IF execution # NoRow /\ execution.status = "COMPLETED"
                 THEN IdleValidator
               ELSE IF act.action = "WAIT" THEN IdleValidator
               ELSE IF act.action = "ERROR" THEN IdleValidator
               ELSE [pc |-> "upsert", eventId |-> e, action |-> act.action,
                     eventData |-> event]]
             /\ quorumWith' = [quorumWith EXCEPT ![e] =
                  IF /\ event # NoRow
                     /\ ~(execution # NoRow /\ execution.status = "COMPLETED")
                     /\ cr.isValid /\ @ = 0
                    THEN Len(SignatureRows(e)) ELSE @]
  /\ UNCHANGED <<events, executions, now, invocations, invoked, executor,
                 processedOnChain, minedTx, submitted, sentTx, everFailed>>
  /\ WatcherUnchanged /\ ValidateUnchanged /\ CursorUnchanged /\ FaultUnchanged /\ HashUnchanged /\ BridgeUnchanged

\* upsertExecution({eventId, status: 'PENDING', retryCount: 0}): a plain put
ValUpsert(v) ==
  LET e == validator[v].eventId
  IN /\ validator[v].pc = "upsert"
     /\ executions' = [executions EXCEPT ![e] =
          ExecutionItem(e, "PENDING", Empty, 0, Empty)]
     /\ validator' = [validator EXCEPT ![v].pc = "invoke"]
     /\ UNCHANGED <<events, now, streamRecords, invocations, invoked, executor,
                    processedOnChain, minedTx, submitted, sentTx, everFailed, quorumWith>>
     /\ WatcherUnchanged /\ ValidateUnchanged /\ CursorUnchanged /\ FaultUnchanged /\ HashUnchanged /\ BridgeUnchanged

\* invokeLambda(ExecutorFunction, payload), InvocationType 'Event'. When
\* lambdaClient.send rejects, invokeLambda rethrows, the catch of
\* validateAndTriggerExecution returns a failure result and the handler
\* goes on to answer 200: the stream record counts as processed.
ValInvoke(v) ==
  LET e == validator[v].eventId
  IN /\ validator[v].pc = "invoke"
     /\ \/ /\ invocations' = [invocations EXCEPT ![e] =
                Append(@, [eventId |-> e, action |-> validator[v].action,
                           eventData |-> validator[v].eventData])]
           /\ invoked' = [invoked EXCEPT ![e] = @ + 1]
           /\ UNCHANGED dispatchFaults
        \/ /\ dispatchFaults > 0
           /\ dispatchFaults' = dispatchFaults - 1
           /\ UNCHANGED <<invocations, invoked>>
     /\ validator' = [validator EXCEPT ![v] = IdleValidator]
     /\ UNCHANGED <<events, executions, now, streamRecords, executor,
                    processedOnChain, minedTx, submitted, sentTx, everFailed, quorumWith,
                    relayerKey, badLogs, badRecords>>
     /\ WatcherUnchanged /\ ValidateUnchanged /\ CursorUnchanged /\ HashUnchanged /\ BridgeUnchanged

\* the validator's Lambda dies between upsertExecution(PENDING) and
\* invokeLambda: the invocation ends in an error and the event source
\* mapping delivers the stream record again
ValCrash(v) ==
  LET e == validator[v].eventId
  IN /\ validator[v].pc = "invoke"
     /\ dispatchFaults > 0
     /\ dispatchFaults' = dispatchFaults - 1
     /\ streamRecords' = [streamRecords EXCEPT ![e] = @ + 1]
     /\ validator' = [validator EXCEPT ![v] = IdleValidator]
     /\ UNCHANGED <<events, executions, now, invocations, invoked, executor,
                    processedOnChain, minedTx, submitted, sentTx, everFailed, quorumWith,
                    relayerKey, badLogs, badRecords>>
     /\ WatcherUnchanged /\ ValidateUnchanged /\ CursorUnchanged /\ HashUnchanged /\ BridgeUnchanged

(* ------------------------ executor/index.js ---------------------------- *)
\* validateMintParams / validateUnlockParams
ValidateParams(eventData) ==
  /\ eventData.toAddress # Empty
  /\ eventData.amount # Empty /\ eventData.amount # AmountToString(0)
  /\ eventData.eventId # 0

\* upsertExecution({eventId, status: 'IN_PROGRESS', retryCount: 0})
ExecStartRow(row, e) == ExecutionItem(e, "IN_PROGRESS", Empty, 0, Empty)

\* the handler is entered with a queued payload and writes IN_PROGRESS
ExecStart(x) ==
  /\ executor[x].pc = "idle"
  /\ \E e \in EventIds :
       /\ invocations[e] # <<>>
       /\ invocations' = [invocations EXCEPT ![e] = Tail(@)]
       /\ executions' = [executions EXCEPT ![e] = ExecStartRow(@, e)]
       /\ executor' = [executor EXCEPT ![x] =
            [pc |-> IF ValidateParams(Head(invocations[e]).eventData)
                      THEN "send" ELSE "failed",
             eventId |-> e, action |-> Head(invocations[e]).action,
             eventData |-> Head(invocations[e]).eventData,
             attempt |-> 1, txHash |-> Empty, lastError |-> Empty,
             delays |-> <<>>]]
  /\ UNCHANGED <<events, now, streamRecords, validator, invoked,
                 processedOnChain, minedTx, submitted, sentTx, everFailed, quorumWith>>
  /\ WatcherUnchanged /\ ValidateUnchanged /\ CursorUnchanged /\ FaultUnchanged /\ HashUnchanged /\ BridgeUnchanged

\* mutant: the loop over the attempts has no upper end
MoreAttempts_Forever(attempt) == TRUE

\* sendTransaction: for (attempt = 1; attempt <= maxRetries; attempt++)
MoreAttempts(attempt) == attempt < MaxRetries

\* sendTransaction: Math.pow(2, attempt) * 1000 milliseconds
BackoffDelay(attempt) == (2 ^ attempt) * 1000

\* the error caught in attempt k of sendTransaction: estimateGas wraps a
\* revert as 'Gas estimation failed'; a provider failure keeps its own message
AttemptError(attempt, reverted) ==
  <<"attempt", attempt,
    IF reverted THEN "Gas estimation failed" ELSE "network error">>

\* mutant: every action is carried out as a mint
ExecuteAction_AlwaysMint(action, eventData) ==
  [chain |-> "ethereum", method |-> "mintWrapped", to |-> eventData.toAddress,
   amount |-> eventData.amount, eventId |-> eventData.eventId]

\* executeAction, executeMint / executeUnlock: the bridge contract, the
\* method and the arguments [to, amount, eventId] handed to sendTransaction
ExecuteAction(action, eventData) ==
  [chain |-> IF action = "MINT" THEN "ethereum" ELSE "arbitrum",
   method |-> IF action = "MINT" THEN "mintWrapped" ELSE "unlockTokens",
   to |-> eventData.toAddress, amount |-> eventData.amount,
   eventId |-> eventData.eventId]

\* one attempt of sendTransaction: estimateGas, then the contract call.
\* estimateGas reverts once the bridge contract has processed the eventId;
\* every caught error is retried after the backoff delay.
ExecSend(x) ==
  LET rec == executor[x]
      e == rec.eventId
  IN /\ rec.pc = "send"
     /\ \E sent \in BOOLEAN :
          IF sent /\ ~processedOnChain[e]
            THEN /\ submitted' = [submitted EXCEPT ![e] = @ + 1]
                 /\ sentTx' = sentTx \cup
                      {[hash |-> <<"txh", e, submitted[e] + 1>>,
                        call |-> ExecuteAction(rec.action, rec.eventData)]}
                 /\ executor' = [executor EXCEPT ![x] =
                      [rec EXCEPT !.pc = "wait",
                                  !.txHash = <<"txh", e, submitted[e] + 1>>]]
            ELSE /\ executor' = [executor EXCEPT ![x] =
                      IF MoreAttempts(rec.attempt)
                        THEN [rec EXCEPT !.attempt = rec.attempt + 1,
                                         !.lastError = AttemptError(rec.attempt, sent),
                                         !.delays = Append(@, BackoffDelay(rec.attempt))]
                        ELSE [rec EXCEPT !.pc = "failed",
                                         !.lastError = AttemptError(rec.attempt, sent)]]
                 /\ UNCHANGED <<submitted, sentTx>>
     /\ UNCHANGED <<events, executions, now, streamRecords, validator,
                    invocations, invoked, processedOnChain, minedTx, everFailed, quorumWith>>
     /\ WatcherUnchanged /\ ValidateUnchanged /\ CursorUnchanged /\ FaultUnchanged /\ HashUnchanged /\ BridgeUnchanged

\* mutant: the receipt's status is not tested
ReceiptOk_IgnoreStatus(receipt) == receipt # NoRow

\* waitForTransaction: !receipt || receipt.status === 0 throws
ReceiptOk(receipt) == receipt # NoRow /\ receipt.status # 0

\* waitForTransaction(tx.hash, chain, 3): the wait ends without a receipt
\* (the transaction was not mined), or the transaction is mined and has the
\* asked number of confirmations; the contract reverts it when the eventId is
\* already processed (receipt.status = 0)
ExecWait(x) ==
  LET rec == executor[x]
      e == rec.eventId
  IN /\ rec.pc = "wait"
     /\ \E mined \in BOOLEAN :
          LET receipt ==
                IF ~mined THEN NoRow
                ELSE [hash |-> rec.txHash,
                      status |-> IF processedOnChain[e] THEN 0 ELSE 1,
                      confirmations |-> Confirmations]
          IN /\ executor' = [executor EXCEPT ![x] =
                  IF ReceiptOk(receipt)
                    THEN [rec EXCEPT !.pc = "complete"]
                    ELSE [rec EXCEPT !.pc = "failed",
                                     !.lastError = <<"wait", "Transaction failed">>]]
             /\ IF mined /\ ~processedOnChain[e]
                  THEN /\ processedOnChain' = [processedOnChain EXCEPT ![e] = TRUE]
                       /\ minedTx' = [minedTx EXCEPT ![e] = receipt]
                  ELSE UNCHANGED <<processedOnChain, minedTx>>
     /\ UNCHANGED <<events, executions, now, streamRecords, validator,
                    invocations, invoked, submitted, sentTx, everFailed, quorumWith>>
     /\ WatcherUnchanged /\ ValidateUnchanged /\ CursorUnchanged /\ FaultUnchanged /\ HashUnchanged /\ BridgeUnchanged

\* the catch around executeAction: upsertExecution FAILED, return 500
ExecFail(x) ==
  LET rec == executor[x]
      e == rec.eventId
  IN /\ rec.pc = "failed"
     /\ executions' = [executions EXCEPT ![e] =
          ExecutionItem(e, "FAILED", Empty, 0,
            IF rec.action = "MINT" THEN "Mint execution failed"
                                   ELSE "Unlock execution failed")]
     /\ everFailed' = [everFailed EXCEPT ![e] = TRUE]
     /\ executor' = [executor EXCEPT ![x] = IdleExecutor]
     /\ UNCHANGED <<events, now, streamRecords, validator, invocations,
                    invoked, processedOnChain, minedTx, submitted, sentTx, quorumWith>>
     /\ WatcherUnchanged /\ ValidateUnchanged /\ CursorUnchanged /\ FaultUnchanged /\ HashUnchanged /\ BridgeUnchanged

\* upsertExecution({eventId, status: 'COMPLETED', txHash, retryCount: 0})
ExecComplete(x) ==
  LET rec == executor[x]
      e == rec.eventId
  IN /\ rec.pc = "complete"
     /\ executions' = [executions EXCEPT ![e] =
          ExecutionItem(e, "COMPLETED", rec.txHash, 0, Empty)]
     /\ executor' = [executor EXCEPT ![x].pc = "update"]
     /\ UNCHANGED <<events, now, streamRecords, validator, invocations,
                    invoked, processedOnChain, minedTx, submitted, sentTx, everFailed, quorumWith>>
     /\ WatcherUnchanged /\ ValidateUnchanged /\ CursorUnchanged /\ FaultUnchanged /\ HashUnchanged /\ BridgeUnchanged

\* mutant: every completed action marks the event MINTED
NewStatus_AlwaysMinted(action) == "MINTED"

\* newStatus = action === 'MINT' ? 'MINTED' : 'UNLOCKED'
NewStatus(action) == IF action = "MINT" THEN "MINTED" ELSE "UNLOCKED"

\* updateEventStatus(eventId, MINTED | UNLOCKED), return 200
ExecUpdateEvent(x) ==
  LET rec == executor[x]
      e == rec.eventId
  IN /\ rec.pc = "update"
     /\ events' = [events EXCEPT ![e].status = NewStatus(rec.action)]
     /\ executor' = [executor EXCEPT ![x] = IdleExecutor]
     /\ UNCHANGED <<executions, now, streamRecords, validator, invocations,
                    invoked, processedOnChain, minedTx, submitted, sentTx, everFailed, quorumWith>>
     /\ WatcherUnchanged /\ ValidateUnchanged /\ CursorUnchanged /\ FaultUnchanged /\ HashUnchanged /\ BridgeUnchanged

\* time passes, up to the instant limit
Tick(limit) ==
  /\ now < limit
  /\ now' = now + TickMinutes
  /\ UNCHANGED <<events, executions, streamRecords, validator, invocations,
                 invoked, executor, processedOnChain, minedTx, submitted, sentTx, everFailed,
                 quorumWith>>
  /\ WatcherUnchanged /\ ValidateUnchanged /\ CursorUnchanged /\ FaultUnchanged /\ HashUnchanged /\ BridgeUnchanged

(* --------------------------- bridge contracts --------------------------- *)
ZeroAddress == 0
Accounts == 1..NumAccounts
BridgeAddress == NumAccounts + 1
Callers == {"owner", "other"}
NoTx == [fn |-> "none", eventId |-> 0, reason |-> "none"]
Ok == "ok"

\* the contracts as deployed: the BSC bridge holds the locked tokens, no
\* wrapped token exists, no eventId is processed
Deployed ==
  /\ token = [a \in Accounts \cup {BridgeAddress} |->
                IF a = BridgeAddress THEN BridgeFunds ELSE 0]
  /\ wrapped = [a \in Accounts |-> 0]
  /\ processedUnlocks = [e \in EventIds |-> FALSE]
  /\ processedEvents = [e \in EventIds |-> FALSE]
  /\ processedMints = [e \in EventIds |-> FALSE]
  /\ tokensUnlocked = [e \in EventIds |-> 0]
  /\ tokensMinted = [e \in EventIds |-> 0]
  /\ calls = 0
  /\ lastTx = NoTx

\* mutant: the processed flag is not looked at
AlreadyProcessed_Never(flags, eventId) == FALSE

\* require(!processedUnlocks[eventId], ...) and its likes
AlreadyProcessed(flags, eventId) == flags[eventId]

\* BSCBridge.unlockTokens: the first require that fails, or Ok
UnlockOutcome(caller, to, amount, eventId) ==
  IF caller # "owner" THEN "OwnableUnauthorizedAccount"
  ELSE IF to = ZeroAddress THEN "BSCBridge: unlock to zero address"
  ELSE IF amount = 0 THEN "BSCBridge: unlock amount is zero"
  ELSE IF AlreadyProcessed(processedUnlocks, eventId)
    THEN "BSCBridge: event already processed"
  ELSE IF token[BridgeAddress] < amount
    THEN "BSCBridge: insufficient bridge balance"
  ELSE Ok

\* BSCBridge.unlockTokens(to, amount, eventId) sent by caller; a revert
\* leaves the contract's storage as it was
UnlockTokens(caller, to, amount, eventId) ==
  LET reason == UnlockOutcome(caller, to, amount, eventId)
  IN /\ calls < MaxCalls
     /\ calls' = calls + 1
     /\ lastTx' = [fn |-> "unlockTokens", eventId |-> eventId, reason |-> reason]
     /\ IF reason = Ok
          THEN /\ processedUnlocks' = [processedUnlocks EXCEPT ![eventId] = TRUE]
               /\ token' = [token EXCEPT ![BridgeAddress] = @ - amount,
                                         ![to] = @ + amount]
               /\ tokensUnlocked' = [tokensUnlocked EXCEPT ![eventId] = @ + 1]
          ELSE UNCHANGED <<processedUnlocks, token, tokensUnlocked>>
     /\ UNCHANGED <<wrapped, processedEvents, processedMints, tokensMinted>>

\* WrappedToken.mint called by the bridge: the first require that fails, or Ok
MintOutcome(to, amount, eventId) ==
  IF to = ZeroAddress THEN "WrappedToken: mint to zero address"
  ELSE IF amount = 0 THEN "WrappedToken: mint amount is zero"
  ELSE IF AlreadyProcessed(processedEvents, eventId)
    THEN "WrappedToken: event already processed"
  ELSE Ok

\* EthereumBridge.mintWrapped: the first require that fails, its own or the
\* token's, or Ok
MintWrappedOutcome(caller, to, amount, eventId) ==
  IF caller # "owner" THEN "OwnableUnauthorizedAccount"
  ELSE IF to = ZeroAddress THEN "EthereumBridge: mint to zero address"
  ELSE IF amount = 0 THEN "EthereumBridge: mint amount is zero"
  ELSE IF AlreadyProcessed(processedMints, eventId)
    THEN "EthereumBridge: event already processed"
  ELSE MintOutcome(to, amount, eventId)

\* EthereumBridge.mintWrapped(to, amount, eventId) sent by caller, with the
\* call to WrappedToken.mint it makes
MintWrapped(caller, to, amount, eventId) ==
  LET reason == MintWrappedOutcome(caller, to, amount, eventId)
  IN /\ calls < MaxCalls
     /\ calls' = calls + 1
     /\ lastTx' = [fn |-> "mintWrapped", eventId |-> eventId, reason |-> reason]
     /\ IF reason = Ok
          THEN /\ processedMints' = [processedMints EXCEPT ![eventId] = TRUE]
               /\ processedEvents' = [processedEvents EXCEPT ![eventId] = TRUE]
               /\ wrapped' = [wrapped EXCEPT ![to] = @ + amount]
               /\ tokensMinted' = [tokensMinted EXCEPT ![eventId] = @ + 1]
          ELSE UNCHANGED <<processedMints, processedEvents, wrapped, tokensMinted>>
     /\ UNCHANGED <<token, processedUnlocks, tokensUnlocked>>

\* the store and the executors stand still while the contracts are called
BridgeCall(caller, to, amount, eventId) ==
  /\ \/ UnlockTokens(caller, to, amount, eventId)
     \/ MintWrapped(caller, to, amount, eventId)
  /\ UNCHANGED <<events, now, streamRecords>>
  /\ PipelineUnchanged
  /\ WatcherUnchanged /\ ValidateUnchanged /\ CursorUnchanged /\ FaultUnchanged /\ HashUnchanged

(* ------------------------------- states -------------------------------- *)
InitTable ==
  /\ sigCreates = [e \in EventIds |-> [r \in RelayerIds |-> 0]]
  /\ sigRejected = [e \in EventIds |-> [r \in RelayerIds |-> FALSE]]
  /\ polls = 0
  /\ watcher = [w \in Watchers |-> IdleWatcher]
  /\ seen = [w \in Watchers |-> {}]
  /\ signatures = [e \in EventIds |-> [r \in RelayerIds |-> NoRow]]
  /\ executions = [e \in EventIds |-> NoRow]
  /\ streamRecords = [e \in EventIds |-> 0]
  /\ validator = [v \in Validators |-> IdleValidator]
  /\ executor = [x \in Executors |-> IdleExecutor]
  /\ invocations = [e \in EventIds |-> <<>>]
  /\ invoked = [e \in EventIds |-> 0]
  /\ processedOnChain = [e \in EventIds |-> FALSE]
  /\ minedTx = [e \in EventIds |-> NoRow]
  /\ submitted = [e \in EventIds |-> 0]
  /\ sentTx = {}
  /\ everFailed = [e \in EventIds |-> FALSE]
  /\ quorumWith = [e \in EventIds |-> 0]
  /\ cursor = [w \in Watchers |-> NoCursor]
  /\ lastRange = [w \in Watchers |-> NoCall]
  /\ advances = 0
  /\ Deployed

\* every relayer's key is set and well-formed, every log and record parses
NoFaults ==
  /\ hashIn = <<>> /\ hashOut = <<>>
  /\ dispatchFaults = 0
  /\ relayerKey = [r \in RelayerIds |-> "ok"]
  /\ badLogs = {}
  /\ badRecords = [pending |-> 0, handled |-> 0]

InitProcesses ==
  /\ InitTable
  /\ NoFaults
  /\ head = [c \in Chains |-> FirstHead]

\* an empty table
InitPoll ==
  /\ InitProcesses
  /\ now = 0
  /\ events = [e \in EventIds |-> NoRow]
  /\ eventCreates = [e \in EventIds |-> 0]
  /\ vSigs = <<>> /\ vStatus = "" /\ vResult = NoRow /\ vAction = NoRow

NextPoll ==
  \E r \in RelayerIds : \E c \in Chains :
     \/ PollStart(r, c)
     \/ ProcessCheck(r, c)
     \/ ProcessCreate(r, c)
     \/ SignStep(r, c)

SpecPoll == InitPoll /\ [][NextPoll]_vars

\* an empty table; each chain is either so young that its safe block is
\* block 0, or at FirstHead
InitCursor ==
  /\ InitTable
  /\ NoFaults
  /\ head \in [Chains -> {ConfirmationDepth, FirstHead}]
  /\ now = 0
  /\ events = [e \in EventIds |-> NoRow]
  /\ eventCreates = [e \in EventIds |-> 0]
  /\ vSigs = <<>> /\ vStatus = "" /\ vResult = NoRow /\ vAction = NoRow

NextCursor ==
  \/ \E r \in RelayerIds : \E c \in Chains :
       \/ RangeStart(r, c)
       \/ ProcessCheck(r, c)
       \/ ProcessCreate(r, c)
       \/ SignStep(r, c)
  \/ \E c \in Chains : Advance(c)
  \/ \E r \in RelayerIds : Restart(r)

SpecCursor == InitCursor /\ [][NextCursor]_vars

\* an empty table; the first relayer's key may be missing or malformed, at
\* most one log does not parse, malformed records wait in the stream
InitFault ==
  /\ InitTable
  /\ head = [c \in Chains |-> FirstHead]
  /\ now = 0
  /\ events = [e \in EventIds |-> NoRow]
  /\ eventCreates = [e \in EventIds |-> 0]
  /\ vSigs = <<>> /\ vStatus = "" /\ vResult = NoRow /\ vAction = NoRow
  /\ \E state \in {"ok", "missing", "malformed"} :
       relayerKey = [r \in RelayerIds |-> IF r = 1 THEN state ELSE "ok"]
  /\ \E B \in SUBSET EventIds : Cardinality(B) <= 1 /\ badLogs = B
  /\ badRecords = [pending |-> MaxBadRecords, handled |-> 0]
  /\ dispatchFaults = 0
  /\ hashIn = <<>> /\ hashOut = <<>>

\* a watcher signs only the events it created itself, so no event gets a
\* second signature here and the validator stops at its decision to wait
NextFault ==
  \/ \E r \in RelayerIds : \E c \in Chains :
       \/ PollBatch(r, c, MaxFaultPolls)
       \/ ProcessCheck(r, c)
       \/ ProcessCreate(r, c)
       \/ SignStep(r, c)
  \/ \E v \in Validators :
       \/ ValBadRecord(v)
       \/ ValRead(v)

SpecFault == InitFault /\ [][NextFault]_vars

\* the table after the watchers have ingested one of the chains' events
Init ==
  /\ InitProcesses
  /\ now = 0
  /\ \E k \in 1..NumIngested :
       /\ events = [e \in EventIds |->
            IF e = k THEN EventDataOf(e, ChainOf(e)) ELSE NoRow]
       /\ eventCreates = [e \in EventIds |-> IF e = k THEN 1 ELSE 0]
  /\ vSigs = <<>> /\ vStatus = "" /\ vResult = NoRow /\ vAction = NoRow

Next ==
  \/ \E r \in RelayerIds : \E c \in Chains : BatchStart(r, c, MaxBatches)
  \/ \E r \in RelayerIds : \E c \in Chains : SignStep(r, c)
  \/ \E v \in Validators : ValRead(v)
  \/ \E v \in Validators : ValUpsert(v)
  \/ \E v \in Validators : ValInvoke(v)
  \/ \E x \in Executors : ExecStart(x)
  \/ \E x \in Executors : ExecSend(x)
  \/ \E x \in Executors : ExecWait(x)
  \/ \E x \in Executors : ExecFail(x)
  \/ \E x \in Executors : ExecComplete(x)
  \/ \E x \in Executors : ExecUpdateEvent(x)
  \* the clock runs until the first signatures have left the freshness window
  \/ Tick(MaxAgeMinutes)

Spec == Init /\ [][Next]_vars

\* the first TokensLocked log and the first TokensBurned log
LockEvent == 1
BurnEvent == 2

\* the table after the watchers have ingested a lock event or a burn event
InitDispatch ==
  /\ InitProcesses
  /\ now = 0
  /\ \E k \in {LockEvent, BurnEvent} :
       /\ events = [e \in EventIds |->
            IF e = k THEN EventDataOf(e, ChainOf(e)) ELSE NoRow]
       /\ eventCreates = [e \in EventIds |-> IF e = k THEN 1 ELSE 0]
  /\ vSigs = <<>> /\ vStatus = "" /\ vResult = NoRow /\ vAction = NoRow

SpecDispatch == InitDispatch /\ [][Next]_vars

\* the signer loop alone, over a table holding every event of the chains
InitSign ==
  /\ InitProcesses
  /\ now = 0
  /\ events = [e \in EventIds |-> EventDataOf(e, ChainOf(e))]
  /\ eventCreates = [e \in EventIds |-> 1]
  /\ vSigs = <<>> /\ vStatus = "" /\ vResult = NoRow /\ vAction = NoRow

NextSign ==
  \/ \E r \in RelayerIds : \E c \in Chains : BatchStart(r, c, MaxSignBatches)
  \/ \E r \in RelayerIds : \E c \in Chains : SignStep(r, c)
  \/ Tick(MaxTicks * TickMinutes)

SpecSign == InitSign /\ [][NextSign]_vars

\* the signers and the validator while the executor invocations stay queued:
\* signatures keep arriving after the validator has decided
NextLate ==
  \/ \E r \in RelayerIds : \E c \in Chains : BatchStart(r, c, MaxLateBatches)
  \/ \E r \in RelayerIds : \E c \in Chains : SignStep(r, c)
  \/ \E v \in Validators : ValRead(v)
  \/ \E v \in Validators : ValUpsert(v)
  \/ \E v \in Validators : ValInvoke(v)
  \/ Tick(MaxTicks * TickMinutes)

SpecLate == Init /\ [][NextLate]_vars

(* ------------------- the consensus check on its own -------------------- *)
\* the instant at which the lists are validated
ValidateNow == 100
StaleTimestamp == ValidateNow - MaxAgeMinutes - 1
FreshTimestamp == ValidateNow - MaxAgeMinutes

\* the known relayers
ListRelayers == RelayerIds

\* the rows a list may hold: well-formed rows of every relayer and age, and
\* rows lacking their signature bytes, their public key or their relayer id
ListRows ==
  {SignatureItem(0, r, <<"sig", r>>, AddressOf(r), t) :
      r \in ListRelayers, t \in {StaleTimestamp, FreshTimestamp, NoTimestamp}}
  \cup {SignatureItem(0, 1, Empty, AddressOf(1), t) :
      t \in {StaleTimestamp, FreshTimestamp}}
  \cup {SignatureItem(0, 1, <<"sig", 1>>, Empty, FreshTimestamp),
        SignatureItem(0, NoRelayer, <<"sig", 0>>, AddressOf(0), FreshTimestamp)}

\* the statuses an Event row takes (processEvent, executor handler)
EventStatuses == {"PENDING_MINT", "PENDING_UNLOCK", "MINTED", "UNLOCKED"}

RowLists == UNION {[1..n -> ListRows] : n \in 0..MaxSigs}

InitValidate ==
  /\ InitProcesses
  /\ now = ValidateNow
  /\ events = [e \in EventIds |-> NoRow]
  /\ eventCreates = [e \in EventIds |-> 0]
  /\ vSigs \in RowLists
  /\ vStatus \in EventStatuses
  /\ vResult = NoRow
  /\ vAction = NoRow

\* the table holds an ingested event; the validator may crash after its
\* write and its invocations of the executor may fail
InitReplay ==
  /\ InitTable
  /\ head = [c \in Chains |-> FirstHead]
  /\ relayerKey = [r \in RelayerIds |-> "ok"]
  /\ badLogs = {}
  /\ badRecords = [pending |-> 0, handled |-> 0]
  /\ hashIn = <<>> /\ hashOut = <<>>
  /\ dispatchFaults = MaxDispatchFaults
  /\ now = 0
  /\ \E k \in 1..NumIngested :
       /\ events = [e \in EventIds |->
            IF e = k THEN EventDataOf(e, ChainOf(e)) ELSE NoRow]
       /\ eventCreates = [e \in EventIds |-> IF e = k THEN 1 ELSE 0]
  /\ vSigs = <<>> /\ vStatus = "" /\ vResult = NoRow /\ vAction = NoRow

NextReplay ==
  \/ \E r \in RelayerIds : \E c \in Chains : BatchStart(r, c, MaxLateBatches)
  \/ \E r \in RelayerIds : \E c \in Chains : SignStep(r, c)
  \/ \E v \in Validators : ValRead(v)
  \/ \E v \in Validators : ValUpsert(v)
  \/ \E v \in Validators : ValInvoke(v)
  \/ \E v \in Validators : ValCrash(v)

SpecReplay == InitReplay /\ [][NextReplay]_vars

\* the Event rows a relayer may read: any event, at any status of its
\* lifecycle, with any updatedAt
RowReadings ==
  {[eventId |-> d.eventId, txHash |-> d.txHash, chain |-> d.chain,
    amount |-> d.amount, fromAddress |-> d.fromAddress,
    toAddress |-> d.toAddress, status |-> st, updatedAt |-> t] :
     d \in {EventDataOf(e, ChainOf(e)) : e \in EventIds},
     st \in EventStatuses, t \in {0, TickMinutes}}

InitHash ==
  /\ InitTable
  /\ head = [c \in Chains |-> FirstHead]
  /\ relayerKey = [r \in RelayerIds |-> "ok"]
  /\ badLogs = {}
  /\ badRecords = [pending |-> 0, handled |-> 0]
  /\ dispatchFaults = 0
  /\ now = 0
  /\ events = [e \in EventIds |-> NoRow]
  /\ eventCreates = [e \in EventIds |-> 0]
  /\ vSigs = <<>> /\ vStatus = "" /\ vResult = NoRow /\ vAction = NoRow
  /\ hashIn \in ({1} \X RowReadings) \X ({2} \X RowReadings)
  /\ hashOut = <<>>

\* each of the two relayers calls createEventHash on the row it read
HashBoth ==
  /\ hashOut = <<>>
  /\ hashOut' = <<CreateEventHash(hashIn[1][2]), CreateEventHash(hashIn[2][2])>>
  /\ UNCHANGED <<events, signatures, executions, now, eventCreates,
                 sigCreates, sigRejected, polls, watcher, seen, streamRecords,
                 validator, invocations, invoked, executor, processedOnChain, minedTx,
                 submitted, sentTx, everFailed, quorumWith, hashIn>>
  /\ BridgeUnchanged
  /\ ValidateUnchanged /\ CursorUnchanged /\ FaultUnchanged

NextHash == HashBoth

SpecHash == InitHash /\ [][NextHash]_vars

\* validateFullConsensus(event, signatures) is called on the list and
\* determineAction(consensusResult, event.status) on its result
ValidateList ==
  /\ vResult = NoRow
  /\ vResult' = ValidateFullConsensus(vSigs, now)
  /\ vAction' = DetermineAction(vResult', vStatus)
  /\ UNCHANGED <<events, signatures, executions, now, eventCreates,
                 sigCreates, sigRejected, polls, watcher, seen, streamRecords,
                 validator, invocations, invoked, executor, processedOnChain, minedTx,
                 submitted, sentTx, everFailed, quorumWith, vSigs, vStatus>>
  /\ CursorUnchanged /\ FaultUnchanged /\ HashUnchanged /\ BridgeUnchanged

NextValidate == ValidateList

SpecValidate == InitValidate /\ [][NextValidate]_vars

\* the event whose signature rows are validated in SpecVote
VoteEvent == EventDataOf(1, ChainOf(1))

\* a relayer id outside the configured set, with a key of its own
UnknownRelayer == TotalRelayers + 1

\* the rows a partition may hold for VoteEvent, all fresh: the row each known
\* relayer writes; the row of an unknown relayer id signed with its own key;
\* a row of relayer 2 whose signature was made by another key; a row of
\* relayer 3 signed over another event's digest; and a row written under
\* relayer id 2 with relayer 1's key and address
VoteRows ==
  {SignatureItem(1, r, SignEventData(r, VoteEvent).signature, AddressOf(r),
                 FreshTimestamp) : r \in RelayerIds \cup {UnknownRelayer}}
  \cup {SignatureItem(1, 2, SignEventData(UnknownRelayer, VoteEvent).signature,
                      AddressOf(2), FreshTimestamp),
        SignatureItem(1, 3, SignEventData(3, EventDataOf(2, ChainOf(2))).signature,
                      AddressOf(3), FreshTimestamp),
        SignatureItem(1, 2, SignEventData(1, VoteEvent).signature,
                      AddressOf(1), FreshTimestamp)}

InitVote ==
  /\ InitProcesses
  /\ now = ValidateNow
  /\ events = [e \in EventIds |-> NoRow]
  /\ eventCreates = [e \in EventIds |-> 0]
  /\ vSigs \in UNION {[1..n -> VoteRows] : n \in 0..MaxSigs}
  /\ vStatus \in EventStatuses
  /\ vResult = NoRow
  /\ vAction = NoRow

SpecVote == InitVote /\ [][NextValidate]_vars

InitBridge ==
  /\ InitProcesses
  /\ now = 0
  /\ events = [e \in EventIds |-> NoRow]
  /\ eventCreates = [e \in EventIds |-> 0]
  /\ vSigs = <<>>
  /\ vStatus = "PENDING_MINT"
  /\ vResult = NoRow
  /\ vAction = NoRow

NextBridge ==
  \E caller \in Callers, to \in {ZeroAddress} \cup Accounts,
     amount \in 0..MaxAmount, eventId \in 1..NumBridgeEvents :
       BridgeCall(caller, to, amount, eventId)

SpecBridge == InitBridge /\ [][NextBridge]_vars

(* ============================== claims ================================= *)
SignersOf(e) == {r \in RelayerIds : signatures[e][r] # NoRow}

\* C1: the executor is invoked, and a mint/unlock transaction submitted, for
\* an event only if at least T Signature rows with pairwise distinct
\* relayerId exist for that event.
C1_ExecutionOnlyAfterQuorum ==
  \A e \in EventIds :
     (\/ invoked[e] > 0
      \/ invocations[e] # <<>>
      \/ submitted[e] > 0
      \/ \E x \in Executors : executor[x].pc # "idle" /\ executor[x].eventId = e
      \/ \E v \in Validators : validator[v].pc = "invoke" /\ validator[v].eventId = e)
     => Cardinality(SignersOf(e)) >= RequiredSignatures

C1_Witness ==
  \E e \in EventIds :
     /\ submitted[e] > 0
     /\ invoked[e] > 0
     /\ Cardinality(SignersOf(e)) >= RequiredSignatures

\* C2 (as claimed): a transaction is submitted on-chain for an event at most
\* once as long as its Execution row has never been FAILED.
C2_SubmittedAtMostOnce ==
  \A e \in EventIds : everFailed[e] \/ submitted[e] <= 1

\* C3 (as claimed): an executor invocation that finds the Execution row
\* COMPLETED returns at once: the row is left as it is and the handler
\* goes no further.
C3_CompletedShortCircuit ==
  [][\A e \in EventIds :
       (/\ Len(invocations'[e]) < Len(invocations[e])
        /\ executions[e] # NoRow
        /\ executions[e].status = "COMPLETED")
       => (/\ executions'[e] = executions[e]
           /\ executor' = executor)]_vars

\* C4 (as claimed): when two relayers' watchers have polled ranges holding
\* the same event, one Event row was created and each of the two relayers
\* has its own Signature row for it.
C4_BothRelayersSign ==
  \A e \in EventIds : \A r1, r2 \in RelayerIds :
     LET c == ChainOf(e) IN
     (/\ r1 # r2
      /\ e \in seen[<<r1, c>>] /\ e \in seen[<<r2, c>>]
      /\ watcher[<<r1, c>>].pc = "idle" /\ watcher[<<r2, c>>].pc = "idle")
     => (/\ eventCreates[e] = 1
         /\ signatures[e][r1] # NoRow
         /\ signatures[e][r2] # NoRow)

ImmutableFields(row) ==
  <<row.eventId, row.txHash, row.chain, row.amount, row.fromAddress,
    row.toAddress>>

\* C5: at most one Event row is ever created per eventId, and a stored row's
\* txHash, chain, amount, fromAddress and toAddress are never overwritten by
\* a later ingest, whatever the interleaving of the watchers.
C5_OneEventRow ==
  [][\A e \in EventIds :
       /\ eventCreates'[e] <= 1
       /\ events[e] # NoRow =>
            /\ events'[e] # NoRow
            /\ ImmutableFields(events'[e]) = ImmutableFields(events[e])]_vars

C5_Witness ==
  \E e \in EventIds : \E w1, w2 \in Watchers :
     /\ w1 # w2
     /\ e \in seen[w1] /\ e \in seen[w2]
     /\ watcher[w1].pc = "idle" /\ watcher[w2].pc = "idle"
     /\ watcher[w2].outcome = "THROWN"
     /\ eventCreates[e] = 1

\* C6 (as claimed): processEvent of a log whose Event row already exists
\* ends by returning null, also when the row appeared between the existence
\* check and the conditional insert.
C6_DuplicateReturnsNull ==
  [][\A w \in Watchers :
       (/\ watcher[w].pc \in {"check", "create"}
        /\ watcher'[w] # watcher[w]
        /\ events[Head(watcher[w].queue)] # NoRow)
       => watcher'[w].outcome = "NULL"]_vars

\* C7: for every (eventId, relayerId) at most one Signature row is ever
\* created, however many times sign + recordSignature run for the pair.
C7_OneSignatureRow ==
  \A e \in EventIds : \A r \in RelayerIds :
     /\ sigCreates[e][r] <= 1
     /\ (sigCreates[e][r] = 1) <=> (signatures[e][r] # NoRow)

C7_Witness ==
  \E e \in EventIds : \E r \in RelayerIds :
     /\ sigRejected[e][r]
     /\ sigCreates[e][r] = 1
     /\ signatures[e][r].relayerId = r

\* C8: a second recordSignature for a pair that has a row leaves the row
\* unchanged; a relayer's recordSignature leaves its own row in place
\* whatever rows and rejected duplicates exist for the event; and a
\* batch ends with a row of the relayer for each of its events.
C8_DuplicateIsNoOp ==
  [][/\ \A e \in EventIds : \A r \in RelayerIds :
          signatures[e][r] # NoRow => signatures'[e][r] = signatures[e][r]
     /\ \A w \in Watchers :
          (watcher[w].pc = "sign" /\ watcher'[w] # watcher[w])
          => signatures'[watcher[w].events[watcher[w].pos]][w[1]] # NoRow
     /\ \A w \in Watchers :
          (watcher[w].pc = "sign" /\ watcher'[w].pc = "idle")
          => \A i \in 1..Len(watcher[w].events) :
                signatures'[watcher[w].events[i]][w[1]] # NoRow]_vars

C8_Witness ==
  \E r \in RelayerIds : \E e1, e2 \in EventIds :
     /\ e1 < e2 /\ ChainOf(e1) = ChainOf(e2)
     /\ sigRejected[e1][r]
     /\ signatures[e1][r] # NoRow /\ signatures[e2][r] # NoRow
     /\ signatures[e2][r].timestamp > signatures[e1][r].timestamp

HasRelayer(sig) == sig.relayerId # NoRelayer

DistinctRelayers(sigs) ==
  \A i, j \in 1..Len(sigs) :
     (i # j /\ HasRelayer(sigs[i]) /\ HasRelayer(sigs[j]))
     => sigs[i].relayerId # sigs[j].relayerId

AllFresh(sigs) ==
  \A i \in 1..Len(sigs) :
     sigs[i].timestamp # NoTimestamp => now - sigs[i].timestamp <= MaxAgeMinutes

WellFormedCount(sigs) ==
  Cardinality({i \in 1..Len(sigs) :
     sigs[i].signature # Empty /\ HasRelayer(sigs[i]) /\ sigs[i].publicKey # Empty})

\* C9: for signatures of pairwise distinct relayers, none older than the
\* freshness window, quorum is reached iff the number of structurally valid
\* rows is at least T; structurally invalid rows do not count.
C9_QuorumIffValidCount ==
  (vResult # NoRow /\ DistinctRelayers(vSigs) /\ AllFresh(vSigs))
  => (vResult.isValid <=> WellFormedCount(vSigs) >= RequiredSignatures)

C9_Witness ==
  /\ vResult # NoRow /\ DistinctRelayers(vSigs) /\ AllFresh(vSigs)
  /\ Len(vSigs) > WellFormedCount(vSigs)
  /\ WellFormedCount(vSigs) >= RequiredSignatures
  /\ vResult.isValid

\* the list without the later rows of a signer that already has a
\* structurally valid row in it
RECURSIVE DedupBySigner(_)
DedupBySigner(sigs) ==
  IF sigs = <<>> THEN <<>>
  ELSE LET n == Len(sigs)
           front == DedupBySigner(SubSeq(sigs, 1, n - 1))
           last == sigs[n]
       IN IF HasRelayer(last)
             /\ \E i \in 1..Len(front) :
                   /\ front[i].relayerId = last.relayerId
                   /\ front[i].signature # Empty /\ front[i].publicKey # Empty
            THEN front
            ELSE Append(front, last)

\* C10 (as claimed): the decision on a list equals the decision on the list
\* with the duplicate rows of an already-present signer removed.
C10_DuplicatesIgnored ==
  vResult # NoRow
  => vResult.isValid = ValidateFullConsensus(DedupBySigner(vSigs), now).isValid

\* the list without the rows older than the freshness window
RemoveStale(sigs, t) ==
  SelectSeq(sigs, LAMBDA s :
     s.timestamp = NoTimestamp \/ t - s.timestamp <= MaxAgeMinutes)

\* C11 (as claimed): for rows of pairwise distinct relayers, the decision on
\* a list equals the decision on the list with the stale rows removed.
C11_StaleExcluded ==
  (vResult # NoRow /\ DistinctRelayers(vSigs))
  => vResult.isValid = ValidateFullConsensus(RemoveStale(vSigs, now), now).isValid

\* C12 (as claimed): once validateFullConsensus has returned isValid for an
\* event, a trigger handled after more signature rows were added for the
\* event does not end in WAIT: the validator goes on to invoke the executor.
C12_QuorumMonotone ==
  [][\A e \in EventIds :
       (/\ streamRecords'[e] < streamRecords[e]
        /\ quorumWith[e] > 0
        /\ Cardinality(SignersOf(e)) > quorumWith[e]
        /\ events[e].status \in {"PENDING_MINT", "PENDING_UNLOCK"}
        /\ ~(executions[e] # NoRow /\ executions[e].status = "COMPLETED"))
       => \E v \in Validators :
             /\ validator[v].pc = "idle"
             /\ validator'[v].pc = "upsert"
             /\ validator'[v].eventId = e]_vars

\* the arrival orders of a list of rows
OrdersOf(sigs) ==
  {[i \in 1..Len(sigs) |-> sigs[p[i]]] : p \in Permutations(1..Len(sigs))}

\* C13: the consensus result and the action determined from it are the same
\* for every order in which the rows of a fixed signature set are listed.
C13_OrderIndependent ==
  vResult # NoRow
  => \A other \in OrdersOf(vSigs) :
        /\ ValidateFullConsensus(other, now) = vResult
        /\ DetermineAction(ValidateFullConsensus(other, now), vStatus) = vAction

C13_Witness ==
  /\ vResult # NoRow
  /\ Len(vSigs) >= 3
  /\ vSigs[1].relayerId # vSigs[2].relayerId
  /\ vSigs[1].timestamp # vSigs[3].timestamp
  /\ vResult.isValid
  /\ vAction.action = "MINT"

\* C14 (as claimed): on quorum PENDING_MINT maps to MINT / mintWrapped on the
\* mint-side chain and PENDING_UNLOCK to UNLOCK / unlockTokens on the
\* lock-side chain; every other status gives ERROR whatever the signatures.
C14_ActionMapping ==
  vAction # NoRow
  => /\ (vResult.isValid /\ vStatus = "PENDING_MINT")
          => /\ vAction.action = "MINT"
             /\ vAction.method = "mintWrapped"
             /\ vAction.targetChain = "ethereum"
     /\ (vResult.isValid /\ vStatus = "PENDING_UNLOCK")
          => /\ vAction.action = "UNLOCK"
             /\ vAction.method = "unlockTokens"
             /\ vAction.targetChain = "arbitrum"
     /\ vStatus \notin {"PENDING_MINT", "PENDING_UNLOCK"}
          => vAction.action = "ERROR"

\* C15: a trigger handled while fewer than T signatures are counted gets the
\* result INSUFFICIENT_SIGNATURES with the current and the required count,
\* writes no Execution row and invokes nothing; and every signature insert
\* leaves a stream record, so the event is evaluated again.
C15_BelowThresholdWaits ==
  [][/\ \A e \in EventIds :
          (/\ streamRecords'[e] < streamRecords[e]
           /\ events[e] # NoRow
           /\ Cardinality(SignersOf(e)) < RequiredSignatures)
          => /\ ValidateFullConsensus(SignatureRows(e), now) =
                  [isValid |-> FALSE, reason |-> "INSUFFICIENT_SIGNATURES",
                   validSignatures |-> Cardinality(SignersOf(e)),
                   requiredSignatures |-> RequiredSignatures]
             /\ validator' = validator
             /\ executions' = executions
             /\ invocations' = invocations
             /\ invoked' = invoked
     /\ \A e \in EventIds : \A r \in RelayerIds :
          (signatures[e][r] = NoRow /\ signatures'[e][r] # NoRow)
          => streamRecords'[e] = streamRecords[e] + 1]_vars

C15_Witness ==
  \E e \in EventIds :
     /\ Cardinality(SignersOf(e)) = 1
     /\ \E r \in RelayerIds : sigCreates[e][r] = 1
     /\ streamRecords[e] = 0
     /\ executions[e] = NoRow
     /\ invoked[e] = 0
     /\ \A v \in Validators : validator[v].pc = "idle"

\* C16 (as claimed): the validator's write of the PENDING Execution row
\* leaves an Execution row that already exists as it is.
C16_CreateIfAbsent ==
  [][\A v \in Validators :
       (/\ validator[v].pc = "upsert"
        /\ validator'[v].pc = "invoke"
        /\ executions[validator[v].eventId] # NoRow)
       => executions'[validator[v].eventId] = executions[validator[v].eventId]]_vars

\* C17 (as claimed): a trigger handled for an event that already has an
\* Execution row (PENDING, IN_PROGRESS, COMPLETED or FAILED) is a no-op: the
\* validator returns without going on to write or to invoke.
C17_AlreadyDoneNoOp ==
  [][\A e \in EventIds :
       (/\ streamRecords'[e] < streamRecords[e]
        /\ executions[e] # NoRow)
       => /\ validator' = validator
          /\ executions' = executions
          /\ invocations' = invocations]_vars

\* C18 (as claimed): once an Execution row with status FAILED has been
\* written for an event, no further transaction is submitted for it, and a
\* trigger handled while the row is FAILED does not set the validator on its
\* way to invoke the executor.
C18_NoSubmitAfterFailed ==
  [][\A e \in EventIds :
       /\ everFailed[e] => submitted'[e] = submitted[e]
       /\ (/\ streamRecords'[e] < streamRecords[e]
           /\ executions[e] # NoRow
           /\ executions[e].status = "FAILED")
          => validator' = validator]_vars

\* C19 (as claimed): while the Execution row of an event is FAILED, the
\* Event row has left its pending status.
C19_FailedEventStatus ==
  \A e \in EventIds :
     (executions[e] # NoRow /\ executions[e].status = "FAILED")
     => events[e].status \notin {"PENDING_MINT", "PENDING_UNLOCK"}

ExecutedStatus(e) == IF ChainOf(e) = "bsc" THEN "MINTED" ELSE "UNLOCKED"

\* C20: an executor whose transaction succeeded writes COMPLETED with that
\* transaction's hash and then sets the Event status to MINTED / UNLOCKED;
\* a COMPLETED row or an executed Event status exists only for an event
\* whose transaction was mined with a successful receipt at the asked depth,
\* and a COMPLETED row carries the hash of that transaction.
C20_CompletedOnlyConfirmed ==
  [][/\ \A x \in Executors :
          LET e == executor[x].eventId IN
          /\ (executor[x].pc = "complete" /\ executor'[x].pc = "update")
             => executions'[e] =
                  ExecutionItem(e, "COMPLETED", minedTx[e].hash, 0, Empty)
          /\ (executor[x].pc = "update" /\ executor'[x].pc = "idle")
             => events'[e].status = ExecutedStatus(e)
     /\ \A e \in EventIds :
          /\ (executions'[e] # NoRow /\ executions'[e].status = "COMPLETED")
             => /\ minedTx'[e] # NoRow
                /\ minedTx'[e].status = 1
                /\ minedTx'[e].confirmations >= Confirmations
                /\ executions'[e].txHash = minedTx'[e].hash
          /\ (events'[e] # NoRow /\ events'[e].status \in {"MINTED", "UNLOCKED"})
             => /\ minedTx'[e] # NoRow
                /\ minedTx'[e].status = 1
                /\ events'[e].status = ExecutedStatus(e)]_vars

\* an event is executed while a second transaction for it was reverted
C20_Witness ==
  \E e \in EventIds :
     /\ events[e] # NoRow
     /\ events[e].status = ExecutedStatus(e)
     /\ minedTx[e] # NoRow
     /\ submitted[e] >= 2
     /\ everFailed[e]

\* C21 (as claimed): the COMPLETED row an executor writes records as
\* retryCount the number of failed submission attempts before the one that
\* succeeded.
C21_RetryCountRecorded ==
  [][\A x \in Executors :
       (executor[x].pc = "complete" /\ executor'[x].pc = "update")
       => executions'[executor[x].eventId].retryCount = executor[x].attempt - 1]_vars

\* C22 (as claimed): when every submission attempt failed, the FAILED row
\* holds the message of the error caught in the last attempt.
C22_LastErrorVerbatim ==
  [][\A x \in Executors :
       (/\ executor[x].pc = "failed" /\ executor'[x].pc = "idle"
        /\ executor[x].lastError # Empty
        /\ executor[x].lastError[1] = "attempt")
       => /\ executions'[executor[x].eventId].status = "FAILED"
          /\ executions'[executor[x].eventId].error = executor[x].lastError[3]]_vars

\* the number of steps an executor can still take before it returns
ExecRank(rec) ==
  CASE rec.pc = "idle" -> 0
    [] rec.pc = "failed" -> 1
    [] rec.pc = "update" -> 1
    [] rec.pc = "complete" -> 2
    [] rec.pc = "wait" -> 3
    [] rec.pc = "send" -> 4 + (MaxRetries - rec.attempt)

C24_RevertNotRetried ==
  [][\A x \in Executors :
       (/\ executor[x].pc = "send"
        /\ executor'[x] # executor[x]
        /\ executor'[x].lastError = AttemptError(executor[x].attempt, TRUE))
       => executor'[x].pc = "failed"]_vars

\* C25 (as claimed): an executor invocation for an event whose Execution row
\* is not the validator's PENDING row is rejected: the Execution row and the
\* Event rows stay as they are and no executor sets out to submit.
C25_RejectedUnlessPending ==
  [][\A e \in EventIds :
       (/\ Len(invocations'[e]) < Len(invocations[e])
        /\ (executions[e] = NoRow \/ executions[e].status # "PENDING"))
       => (/\ executions' = executions
           /\ events' = events
           /\ \A x \in Executors : executor'[x].pc = executor[x].pc)]_vars

\* the range the polling rule gives for a cursor and a head: a cursor is
\* known once a range has been returned, whatever its value
RuleFrom(lastProcessed, currentHead) ==
  IF lastProcessed.known THEN lastProcessed.block + 1
  ELSE currentHead - DefaultLookback

RuleTo(lastProcessed, currentHead) ==
  Min(RuleFrom(lastProcessed, currentHead) + MaxBlocksPerPoll,
      currentHead - ConfirmationDepth)

\* C26 (as claimed): a getPollingRange call that read the head returns null
\* exactly when the rule's from exceeds the rule's to, and otherwise the
\* rule's from and to, with from <= to <= head - ConfirmationDepth; this for
\* every cursor, 0 included.
C26_PollingRange ==
  [][\A w \in Watchers :
       (/\ lastRange'[w].n = lastRange[w].n + 1
        /\ lastRange'[w].rpc # "head_failed")
       => LET from == RuleFrom(cursor[w], head[w[2]])
              to == RuleTo(cursor[w], head[w[2]])
              got == lastRange'[w]
          IN /\ got.isNull <=> from > to
             /\ ~got.isNull =>
                  /\ got.fromBlock = from
                  /\ got.toBlock = to
                  /\ got.fromBlock <= got.toBlock
                  /\ got.toBlock <= head[w[2]] - ConfirmationDepth]_vars

\* C27 (as claimed): a poll run in which an RPC call fails (reading the head
\* or querying the logs of the range) leaves lastProcessedBlock where it was.
C27_FailureKeepsCursor ==
  [][\A w \in Watchers :
       (/\ lastRange'[w].n = lastRange[w].n + 1
        /\ lastRange'[w].rpc \in {"head_failed", "query_failed"})
       => cursor'[w] = cursor[w]]_vars

\* no later range of the watchers of chain c can hold block b: every watcher
\* is idle with its cursor at or past b, and a watcher without a cursor
\* starts later than b
OutOfReach(c, b) ==
  /\ head[c] - DefaultLookback > b
  /\ \A r \in RelayerIds :
       /\ watcher[<<r, c>>].pc = "idle"
       /\ Truthy(cursor[<<r, c>>]) => cursor[<<r, c>>].block >= b

\* C28 (as claimed): no event is missed. An event in a confirmed block that
\* a watcher of its chain had started polling at or before has its Event row
\* by the time no later range of any watcher can hold that block. (Watchers
\* first run within DefaultLookback blocks of the genesis are left aside.)
C28_NoEventMissed ==
  \A e \in EventIds :
    LET c == ChainOf(e)
        b == BlockOf(e)
    IN (/\ b <= head[c] - ConfirmationDepth
        /\ \E r \in RelayerIds : /\ lastRange[<<r, c>>].hasOrigin
                                 /\ lastRange[<<r, c>>].origin <= b
        /\ \A r \in RelayerIds : lastRange[<<r, c>>].hasOrigin
                                   => lastRange[<<r, c>>].origin > 0
        /\ OutOfReach(c, b))
       => events[e] # NoRow

InQueue(rec, e) == \E i \in 1..Len(rec.queue) : rec.queue[i] = e

\* C29: per-event errors are isolated. Every parsable log of a batch that
\* the poll loop has passed has its Event row, whether or not another log of
\* the batch threw; a turn of the sign loop that wrote no row is followed by
\* the turn for the next event; and a stream record that throws leaves the
\* records after it to be validated.
C29_ErrorsIsolated ==
  [][/\ \A w \in Watchers : \A e \in seen'[w] :
          (e \notin badLogs /\ ~InQueue(watcher'[w], e))
          => events'[e] # NoRow
     /\ \A w \in Watchers :
          (/\ watcher[w].pc = "sign"
           /\ watcher'[w] # watcher[w]
           /\ signatures' = signatures
           /\ watcher[w].pos < Len(watcher[w].events))
          => /\ watcher'[w].pc = "sign"
             /\ watcher'[w].pos = watcher[w].pos + 1
             /\ watcher'[w].events = watcher[w].events
     /\ badRecords'.handled > badRecords.handled
          => /\ streamRecords' = streamRecords
             /\ validator' = validator]_vars

\* C29 witness: a log of a batch threw, a later log of the same batch was
\* ingested and signed by the watcher, a malformed stream record was
\* handled and the record of that signature was validated
C29_Witness ==
  \E w \in Watchers : \E e1, e2 \in seen[w] :
    /\ e1 < e2
    /\ e1 \in badLogs /\ events[e1] = NoRow
    /\ events[e2] # NoRow
    /\ signatures[e2][w[1]] # NoRow
    /\ badRecords.handled > 0
    /\ streamRecords[e2] = 0

\* C30: signing fails closed. A relayer whose key is missing or malformed
\* never gets a Signature row and never calls createSignature; each turn of
\* its sign loop adds nothing to the stream and moves on to the next event,
\* so no event is tried twice in a run.
C30_SigningFailsClosed ==
  [][\A r \in RelayerIds :
       relayerKey[r] \in {"missing", "malformed"}
       => /\ \A e \in EventIds :
               /\ signatures'[e][r] = NoRow
               /\ sigCreates'[e][r] = 0
               /\ ~sigRejected'[e][r]
          /\ \A c \in Chains :
               (watcher[<<r, c>>].pc = "sign"
                /\ watcher'[<<r, c>>] # watcher[<<r, c>>])
               => /\ streamRecords' = streamRecords
                  /\ \/ watcher'[<<r, c>>].pc = "idle"
                     \/ /\ watcher'[<<r, c>>].pc = "sign"
                        /\ watcher'[<<r, c>>].pos = watcher[<<r, c>>].pos + 1]_vars

\* C30 witness: a relayer without a usable key has passed the first event of
\* its sign loop and is at the second, with no row for the first
C30_Witness ==
  \E r \in RelayerIds : \E c \in Chains :
    LET rec == watcher[<<r, c>>]
    IN /\ relayerKey[r] \in {"missing", "malformed"}
       /\ rec.pc = "sign" /\ rec.pos = 2
       /\ events[rec.events[1]] # NoRow
       /\ signatures[rec.events[1]][r] = NoRow

\* C31: the digests two relayers compute for readings of the same Event
\* (same eventId, source tx hash, chain tag, amount, sender, recipient) are
\* equal, whatever the status and timestamps of the readings.
C31_DigestOfImmutableFields ==
  (hashOut # <<>> /\ ImmutableFields(hashIn[1][2]) = ImmutableFields(hashIn[2][2]))
  => hashOut[1] = hashOut[2]

\* C31 witness: two relayers hashed the same event read at different
\* statuses and times
C31_Witness ==
  /\ hashOut # <<>>
  /\ hashIn[1][2].eventId = hashIn[2][2].eventId
  /\ hashIn[1][2].status = "PENDING_MINT" /\ hashIn[2][2].status = "MINTED"
  /\ hashIn[1][2].updatedAt # hashIn[2][2].updatedAt
  /\ hashOut[1] = hashOut[2]

\* nothing is left that could start the executor for event e: every relayer
\* has its Signature row, no watcher is at work, no stream record of e is
\* undelivered, no validator is at work and no invocation was ever sent
NoTriggerLeft(e) ==
  /\ \A r \in RelayerIds : signatures[e][r] # NoRow
  /\ \A w \in Watchers : watcher[w].pc = "idle"
  /\ streamRecords[e] = 0
  /\ \A v \in Validators : validator[v].pc = "idle"
  /\ invoked[e] = 0

\* C32 (as claimed): once the validator has written the PENDING Execution
\* row of an event, a crash or a failed invocation is made up for by a
\* replay of the trigger: the row is never left PENDING with nothing that
\* could still start the executor.
C32_PendingIsExecuted ==
  \A e \in EventIds :
    (executions[e] # NoRow /\ executions[e].status = "PENDING")
    => ~NoTriggerLeft(e)

\* a row that may count: it names one of the configured relayers and its
\* signature verifies against its public key for the event's digest
CountsTowardQuorum(sig) ==
  /\ sig.relayerId \in RelayerIds
  /\ sig.publicKey # Empty
  /\ VerifySignature(VoteEvent, sig.signature, sig.publicKey)

\* C33 (as claimed): quorum is reached only on a list in which at least T
\* rows come from known relayers and carry a signature that verifies; rows
\* of unknown relayers and rows that do not verify add nothing.
C33_OnlyVerifiedKnownCount ==
  (vResult # NoRow /\ vResult.isValid)
  => Cardinality({i \in 1..Len(vSigs) : CountsTowardQuorum(vSigs[i])})
       >= RequiredSignatures

\* C38 (as claimed): quorum is reached only on a list holding at least T
\* distinct signer addresses; rows of different relayer ids with the same
\* address are one vote.
C38_OneVotePerAddress ==
  (vResult # NoRow /\ vResult.isValid)
  => Cardinality({vSigs[i].publicKey : i \in 1..Len(vSigs)})
       >= RequiredSignatures

\* C34: a call of unlockTokens or mintWrapped with an eventId whose processed
\* flag is set reverts and leaves every token balance and every processed
\* flag as they were, and no eventId has tokens released for it more than
\* once, however many times the call is made.
C34_AppliedAtMostOnce ==
  [][\A e \in EventIds :
       /\ tokensUnlocked'[e] <= 1
       /\ tokensMinted'[e] <= 1
       /\ (calls' # calls /\ lastTx'.eventId = e)
            => /\ (lastTx'.fn = "unlockTokens" /\ processedUnlocks[e])
                    => /\ lastTx'.reason # Ok
                       /\ token' = token
                       /\ processedUnlocks' = processedUnlocks
               /\ (lastTx'.fn = "mintWrapped"
                     /\ (processedMints[e] \/ processedEvents[e]))
                    => /\ lastTx'.reason # Ok
                       /\ wrapped' = wrapped
                       /\ processedMints' = processedMints
                       /\ processedEvents' = processedEvents]_vars

\* the owner's second unlockTokens for an eventId was reverted as already
\* processed, the tokens of the first still with the recipient
C34_Witness ==
  /\ lastTx.fn = "unlockTokens"
  /\ lastTx.reason = "BSCBridge: event already processed"
  /\ processedUnlocks[lastTx.eventId]
  /\ tokensUnlocked[lastTx.eventId] = 1
  /\ token[BridgeAddress] < BridgeFunds

\* C35 (as claimed): once RequiredSignatures or more relayers with usable
\* keys have each polled, without any failure, a range holding an event and
\* finished their run, the event has Signature rows of at least
\* RequiredSignatures distinct relayers (a relayer that finds the Event row
\* already there still signs it).
C35_PollersReachQuorum ==
  \A e \in EventIds : \A R \in SUBSET RelayerIds :
     (/\ Cardinality(R) >= RequiredSignatures
      /\ \A r \in R : /\ KeyUsable(relayerKey[r])
                      /\ e \in seen[<<r, ChainOf(e)>>]
                      /\ watcher[<<r, ChainOf(e)>>].pc = "idle")
     => Cardinality(SignersOf(e)) >= RequiredSignatures

\* C36: an Event row is never deleted; it changes only in the executor's
\* updateEventStatus step, which leaves every field but the status as it was
\* and takes the status from PENDING_MINT to MINTED or from PENDING_UNLOCK to
\* UNLOCKED; the signers change no Event row, and a MINTED or UNLOCKED status
\* never changes again.
C36_StatusOnlyForward ==
  [][\A e \in EventIds :
       events[e] # NoRow
         => /\ events'[e] # NoRow
            /\ events'[e] # events[e]
                 => /\ \E x \in Executors :
                         /\ executor[x].pc = "update"
                         /\ executor[x].eventId = e
                         /\ executor'[x].pc = "idle"
                    /\ ImmutableFields(events'[e]) = ImmutableFields(events[e])
                    /\ <<events[e].status, events'[e].status>> \in
                         {<<"PENDING_MINT", "MINTED">>,
                          <<"PENDING_UNLOCK", "UNLOCKED">>}]_vars

\* a burn event signed by a quorum has gone to UNLOCKED, its other fields as
\* the watcher stored them, and the executors are at rest
C36_Witness ==
  /\ events[BurnEvent] # NoRow
  /\ events[BurnEvent].status = "UNLOCKED"
  /\ ImmutableFields(events[BurnEvent])
       = ImmutableFields(EventDataOf(BurnEvent, ChainOf(BurnEvent)))
  /\ Cardinality(SignersOf(BurnEvent)) >= RequiredSignatures
  /\ \A x \in Executors : executor[x].pc = "idle"

\* C37 (as claimed): in every reachable state an Event row with status
\* MINTED or UNLOCKED has an Execution row with status COMPLETED and a
\* non-empty txHash, whatever the interleaving of validator and executor
\* runs.
C37_MintedHasCompleted ==
  \A e \in EventIds :
     (events[e] # NoRow /\ events[e].status \in {"MINTED", "UNLOCKED"})
     => /\ executions[e] # NoRow
        /\ executions[e].status = "COMPLETED"
        /\ executions[e].txHash # Empty

\* C39 (as claimed): within one watcher process, a non-empty range returned
\* by getPollingRange after an earlier non-empty range starts at the block
\* after that range's last block and does not end before it starts, so that
\* no block is polled twice and none between the two ranges is skipped.
C39_RangesContiguous ==
  [][\A w \in Watchers :
       (/\ lastRange'[w].n = lastRange[w].n + 1
        /\ lastRange'[w].rpc # "head_failed"
        /\ ~lastRange'[w].isNull
        /\ cursor[w].known)
       => /\ lastRange'[w].fromBlock = cursor[w].block + 1
          /\ lastRange'[w].fromBlock <= lastRange'[w].toBlock]_vars

\* C40: every transaction an executor sends carries the recipient, the
\* amount and the eventId of the Event row of its event, and its method
\* matches the event's origin: mintWrapped for a lock event stored as
\* PENDING_MINT, unlockTokens for a burn event stored as PENDING_UNLOCK.
C40_TxMatchesEvent ==
  [][\A tx \in sentTx' \ sentTx :
       \E e \in EventIds :
          /\ events[e] # NoRow
          /\ tx.call.eventId = events[e].eventId
          /\ tx.call.to = events[e].toAddress
          /\ tx.call.amount = events[e].amount
          /\ \/ /\ tx.call.method = "mintWrapped"
                /\ events[e].status = "PENDING_MINT"
                /\ ChainOf(e) = "bsc"
             \/ /\ tx.call.method = "unlockTokens"
                /\ events[e].status = "PENDING_UNLOCK"
                /\ ChainOf(e) = "ethereum"]_vars

\* an unlockTokens transaction for the burn event has been sent with the
\* row's recipient and amount, and the event has since gone to UNLOCKED
C40_Witness ==
  /\ events[BurnEvent] # NoRow
  /\ events[BurnEvent].status = "UNLOCKED"
  /\ \E tx \in sentTx :
       /\ tx.call.method = "unlockTokens"
       /\ tx.call.eventId = BurnEvent
       /\ tx.call.to = events[BurnEvent].toAddress
       /\ tx.call.amount = AmountToString(LogOf(BurnEvent).amount)

====
